---- MODULE Spec2Model ----
(***************************************************************************)
(* SslStreamSocket (net/SslSocket.hpp): a non-blocking TLS stream socket   *)
(* layered on StreamSocket.  The model follows one socket object: its two  *)
(* fields _sslWantsTo and _doHandshake, the outgoing buffer of the base    *)
(* class, and the position of the poll thread's callback inside the entry  *)
(* points.  Every call into OpenSSL (SSL_do_handshake, SSL_read,           *)
(* SSL_write, SSL_shutdown, SSL_get_error, ERR_get_error, errno) is an     *)
(* input chosen from EngineOutcomes.                                       *)
(*                                                                         *)
(* Spec is the socket under any sequence of calls, from any thread, up to  *)
(* its destruction.  SpecDirect is readData and writeData called on their  *)
(* own.  SpecReactor is the socket driven by its poll thread against an    *)
(* engine that reports nothing fatal, with the fairness that goes with it. *)
(***************************************************************************)
EXTENDS Integers, Sequences, FiniteSets

VARIABLES
    _sslWantsTo,     \* SslWantsTo: "Neither" | "Read" | "Write"
    _doHandshake,    \* TRUE until the handshake has completed
    _outBuffer,      \* StreamSocket: number of bytes buffered for sending
    pc,              \* where the poll thread is inside the socket
    op,              \* the operation most recently entered
    result,          \* what that operation returned ("pending" while inside)
    last,            \* the OpenSSL I/O call that operation made last
    shutdownLog,     \* SSL_shutdown results issued by the latest shutdown()
    events,          \* value returned by the latest getPollEvents()
    scenario,        \* monitor of the "need input, then success" scenario
    _ssl,            \* SSL*: "live" from construction until SSL_free
    dtorLog,         \* the engine calls made by the destructor, in order
    caller,          \* the thread that entered the latest operation
    argLen           \* len of the latest readData/writeData called directly

vars == <<_sslWantsTo, _doHandshake, _outBuffer, pc, op, result, last,
          shutdownLog, events, scenario, _ssl, dtorLog, caller, argLen>>

----------------------------------------------------------------------------
(* Bounds *)

\* Size of the read buffer and largest byte count one engine call moves.
BufSize == 2
\* Largest number of bytes the application buffers for sending.
MaxOut == 2
\* Largest number of signal interruptions of one handshake driver call.
MaxEintr == 1
\* Number of SSL_shutdown results the engine has ready for one shutdown().
MaxShutdownRounds == 3

----------------------------------------------------------------------------
(* Constants of the platform and of OpenSSL *)

POLLIN == 1
POLLOUT == 4
EINTR == 4
\* Any system error other than EINTR (connection reset, broken pipe, ...).
OtherErrno == EINTR + 100

Errnos == {0, EINTR, OtherErrno}

SslErrors == {"SSL_ERROR_ZERO_RETURN", "SSL_ERROR_WANT_READ",
              "SSL_ERROR_WANT_WRITE", "SSL_ERROR_WANT_CONNECT",
              "SSL_ERROR_WANT_ACCEPT", "SSL_ERROR_WANT_X509_LOOKUP",
              "SSL_ERROR_SYSCALL", "SSL_ERROR_SSL"}

\* What one engine call can report: the raw result rc, SSL_get_error's
\* answer for it, errno, and the head of the error queue (ERR_get_error;
\* 0 = queue empty).  A positive rc is a success, for which none of the
\* other three is read.
FailedOutcomes == [rc : {-2, -1, 0}, err : SslErrors, errno : Errnos,
                   bio : {0, 1}]

SuccessOutcomes(max) == [rc : 1..max, err : {"SSL_ERROR_NONE"}, errno : {0},
                         bio : {0}]

EngineOutcomes(max) == FailedOutcomes \cup SuccessOutcomes(max)

\* A handshake step cut short by a signal.
Interrupted(o) == o.rc < 0 /\ o.errno = EINTR

----------------------------------------------------------------------------
(* The private helpers of SslStreamSocket, as operators on its fields *)

\* What handleSslState gives back: the new _sslWantsTo, the value returned
\* (meaningless when threw), whether std::runtime_error was thrown and with
\* which message, and whether an assert stopped the call.
Classified(want, rc, threw) ==
    [want |-> want, rc |-> rc, threw |-> threw, what |-> "",
     aborted |-> FALSE]

\* handleSslState leaving by throw std::runtime_error(what).
Thrown(want, rc, what) ==
    [want |-> want, rc |-> rc, threw |-> TRUE, what |-> what,
     aborted |-> FALSE]

\* A failed assert: the process is aborted before anything else is done.
\* The asserts are taken as compiled in.
AssertFailed(want) ==
    [want |-> want, rc |-> 0, threw |-> FALSE, what |-> "",
     aborted |-> TRUE]

\* The three messages of handleSslState.  The second carries the raw result
\* and the third is ERR_error_string_n of the queued error.
ClosedUnexpectedly == "SSL Socket closed unexpectedly."
BioReportedError == "SSL BIO reported error [rc]."
QueuedDiagnostic == "ERR_error_string_n(bioError)"

\* handleSslState with the errno test of the SSL_ERROR_SYSCALL case left out.
handleSslState_noErrnoTest(want, o) ==
    IF o.rc > 0 THEN Classified("Neither", o.rc, FALSE)
    ELSE IF o.err = "SSL_ERROR_ZERO_RETURN" THEN Classified(want, 0, FALSE)
    ELSE IF o.err = "SSL_ERROR_WANT_READ" THEN Classified("Read", o.rc, FALSE)
    ELSE IF o.err = "SSL_ERROR_WANT_WRITE" THEN Classified("Write", o.rc, FALSE)
    ELSE IF o.err \in {"SSL_ERROR_WANT_CONNECT", "SSL_ERROR_WANT_ACCEPT",
                       "SSL_ERROR_WANT_X509_LOOKUP"}
         THEN Classified(want, o.rc, FALSE)
    ELSE IF o.bio = 0 /\ o.rc = 0 THEN Classified(want, 0, FALSE)
    ELSE Classified(want, o.rc, TRUE)

\* handleSslState taking an empty error queue for a closed socket whatever
\* the raw result.
handleSslState_emptyQueueCloses(want, o) ==
    IF o.rc > 0 THEN Classified("Neither", o.rc, FALSE)
    ELSE IF o.err = "SSL_ERROR_ZERO_RETURN" THEN Classified(want, 0, FALSE)
    ELSE IF o.err = "SSL_ERROR_WANT_READ" THEN Classified("Read", o.rc, FALSE)
    ELSE IF o.err = "SSL_ERROR_WANT_WRITE" THEN Classified("Write", o.rc, FALSE)
    ELSE IF o.err \in {"SSL_ERROR_WANT_CONNECT", "SSL_ERROR_WANT_ACCEPT",
                       "SSL_ERROR_WANT_X509_LOOKUP"}
         THEN Classified(want, o.rc, FALSE)
    ELSE IF o.err = "SSL_ERROR_SYSCALL" /\ o.errno # 0
         THEN Classified(want, o.rc, FALSE)
    ELSE IF o.bio = 0 THEN Classified(want, 0, FALSE)
    ELSE Thrown(want, o.rc, QueuedDiagnostic)

\* handleSslState handing the raw result back for SSL_ERROR_ZERO_RETURN.
handleSslState_zeroReturnRc(want, o) ==
    IF o.rc > 0 THEN Classified("Neither", o.rc, FALSE)
    ELSE IF o.err = "SSL_ERROR_ZERO_RETURN" THEN Classified(want, o.rc, FALSE)
    ELSE IF o.err = "SSL_ERROR_WANT_READ" THEN Classified("Read", o.rc, FALSE)
    ELSE IF o.err = "SSL_ERROR_WANT_WRITE" THEN Classified("Write", o.rc, FALSE)
    ELSE IF o.err \in {"SSL_ERROR_WANT_CONNECT", "SSL_ERROR_WANT_ACCEPT",
                       "SSL_ERROR_WANT_X509_LOOKUP"}
         THEN Classified(want, o.rc, FALSE)
    ELSE IF o.err = "SSL_ERROR_SYSCALL" /\ o.errno # 0
         THEN Classified(want, o.rc, FALSE)
    ELSE IF o.bio = 0
    THEN IF o.rc = 0 THEN Classified(want, 0, FALSE)
         ELSE IF o.rc = -1 THEN Thrown(want, o.rc, ClosedUnexpectedly)
         ELSE Thrown(want, o.rc, BioReportedError)
    ELSE Thrown(want, o.rc, QueuedDiagnostic)

\* handleSslState without the reset of _sslWantsTo on success.
handleSslState_noReset(want, o) ==
    IF o.rc > 0 THEN Classified(want, o.rc, FALSE)
    ELSE IF o.err = "SSL_ERROR_ZERO_RETURN" THEN Classified(want, 0, FALSE)
    ELSE IF o.err = "SSL_ERROR_WANT_READ" THEN Classified("Read", o.rc, FALSE)
    ELSE IF o.err = "SSL_ERROR_WANT_WRITE" THEN Classified("Write", o.rc, FALSE)
    ELSE IF o.err \in {"SSL_ERROR_WANT_CONNECT", "SSL_ERROR_WANT_ACCEPT",
                       "SSL_ERROR_WANT_X509_LOOKUP"}
         THEN Classified(want, o.rc, FALSE)
    ELSE IF o.err = "SSL_ERROR_SYSCALL" /\ o.errno # 0
         THEN Classified(want, o.rc, FALSE)
    ELSE IF o.bio = 0
    THEN IF o.rc = 0 THEN Classified(want, 0, FALSE)
         ELSE IF o.rc = -1 THEN Thrown(want, o.rc, ClosedUnexpectedly)
         ELSE Thrown(want, o.rc, BioReportedError)
    ELSE Thrown(want, o.rc, QueuedDiagnostic)

\* handleSslState resetting _sslWantsTo on SSL_ERROR_ZERO_RETURN as well.
handleSslState_resetOnClose(want, o) ==
    IF o.rc > 0 THEN Classified("Neither", o.rc, FALSE)
    ELSE IF o.err = "SSL_ERROR_ZERO_RETURN" THEN Classified("Neither", 0, FALSE)
    ELSE IF o.err = "SSL_ERROR_WANT_READ" THEN Classified("Read", o.rc, FALSE)
    ELSE IF o.err = "SSL_ERROR_WANT_WRITE" THEN Classified("Write", o.rc, FALSE)
    ELSE IF o.err \in {"SSL_ERROR_WANT_CONNECT", "SSL_ERROR_WANT_ACCEPT",
                       "SSL_ERROR_WANT_X509_LOOKUP"}
         THEN Classified(want, o.rc, FALSE)
    ELSE IF o.err = "SSL_ERROR_SYSCALL" /\ o.errno # 0
         THEN Classified(want, o.rc, FALSE)
    ELSE IF o.bio = 0
    THEN IF o.rc = 0 THEN Classified(want, 0, FALSE)
         ELSE IF o.rc = -1 THEN Thrown(want, o.rc, ClosedUnexpectedly)
         ELSE Thrown(want, o.rc, BioReportedError)
    ELSE Thrown(want, o.rc, QueuedDiagnostic)

\* int handleSslState(const int rc)
handleSslState(want, o) ==
    IF o.rc > 0
    THEN \* Success: Reset so we can do either.
         Classified("Neither", o.rc, FALSE)
    ELSE IF o.err = "SSL_ERROR_ZERO_RETURN"
    THEN \* Shutdown complete, we're disconnected.
         Classified(want, 0, FALSE)
    ELSE IF o.err = "SSL_ERROR_WANT_READ"
    THEN Classified("Read", o.rc, FALSE)
    ELSE IF o.err = "SSL_ERROR_WANT_WRITE"
    THEN Classified("Write", o.rc, FALSE)
    ELSE IF o.err \in {"SSL_ERROR_WANT_CONNECT", "SSL_ERROR_WANT_ACCEPT",
                       "SSL_ERROR_WANT_X509_LOOKUP"}
    THEN \* Unexpected.
         Classified(want, o.rc, FALSE)
    ELSE IF o.err = "SSL_ERROR_SYSCALL" /\ o.errno # 0
    THEN \* Posix API error, let the caller handle.
         Classified(want, o.rc, FALSE)
    ELSE \* SSL_ERROR_SYSCALL with errno = 0 falls through to the default:
         \* the error is coming from BIO.
         IF o.bio = 0
         THEN IF o.rc = 0
              THEN \* Socket closed.
                   Classified(want, 0, FALSE)
              ELSE IF o.rc = -1
              THEN Thrown(want, o.rc, ClosedUnexpectedly)
              ELSE Thrown(want, o.rc, BioReportedError)
         ELSE Thrown(want, o.rc, QueuedDiagnostic)

\* The do ... while (rc < 0 && errno == EINTR) loop of doHandshake: the index
\* in outs of the step whose result leaves the loop.  outs lists what the
\* successive SSL_do_handshake calls report.
RECURSIVE handshakeLoop(_, _)
handshakeLoop(outs, i) ==
    IF Interrupted(outs[i]) /\ i < Len(outs)
    THEN handshakeLoop(outs, i + 1)
    ELSE i

\* What doHandshake gives back: the fields after the call, the value
\* returned, whether it threw, how many times SSL_do_handshake was invoked,
\* the outcome of the last invocation, whether handleSslState saw it, the
\* value of the local rc when the driver was left and the message thrown.
Driven(want, hs, rc, threw, n, out, cls, crc) ==
    [want |-> want, hs |-> hs, rc |-> rc, threw |-> threw, steps |-> n,
     out |-> out, cls |-> cls, crc |-> crc, what |-> ""]

\* The part of doHandshake after the loop: rc = o.rc is the result of step
\* n, and c is what handleSslState makes of it (consulted for rc <= 0 only).
afterLoop(want, n, o, c) ==
    IF o.rc <= 0
    THEN \* rc = handleSslState(rc);
         IF c.threw
         THEN [Driven(want, TRUE, o.rc, TRUE, n, o, TRUE, c.rc)
                 EXCEPT !.what = c.what]
         ELSE IF c.rc <= 0
         THEN \* return (rc != 0);
              Driven(c.want, TRUE, IF c.rc # 0 THEN 1 ELSE 0, FALSE, n, o,
                     TRUE, c.rc)
         ELSE Driven(c.want, FALSE, 1, FALSE, n, o, TRUE, c.rc)
    ELSE \* The step succeeded: handleSslState is not consulted.
         Driven(want, FALSE, 1, FALSE, n, o, FALSE, o.rc)

\* The body of if (_doHandshake): the loop, then the rest.
handshakeStep(want, outs, n) ==
    afterLoop(want, n, outs[n], handleSslState(want, outs[n]))

\* doHandshake with _doHandshake flipped after the if-block rather than
\* cleared inside it.
doHandshake_flip(want, hs, outs) ==
    IF hs
    THEN handshakeStep(want, outs, handshakeLoop(outs, 1))
    ELSE Driven(want, TRUE, 1, FALSE, 0, outs[1], FALSE, 0)

\* doHandshake with _doHandshake cleared before the step's result is looked
\* at.
doHandshake_clearEarly(want, hs, outs) ==
    IF hs
    THEN [handshakeStep(want, outs, handshakeLoop(outs, 1))
            EXCEPT !.hs = FALSE]
    ELSE Driven(want, FALSE, 1, FALSE, 0, outs[1], FALSE, 0)

\* doHandshake without the if (_doHandshake) test: it steps the engine on
\* every call.
doHandshake_noGuard(want, hs, outs) ==
    [handshakeStep(want, outs, handshakeLoop(outs, 1))
        EXCEPT !.hs = IF hs THEN @ ELSE FALSE]

\* doHandshake without the retry loop: the first step's result is used.
doHandshake_noRetry(want, hs, outs) ==
    IF hs
    THEN handshakeStep(want, outs, 1)
    ELSE Driven(want, FALSE, 1, FALSE, 0, outs[1], FALSE, 0)

\* doHandshake handing the result of handleSslState back as it is.
rawResult(h) ==
    IF h.cls /\ ~h.threw /\ h.crc < 0 THEN [h EXCEPT !.rc = h.crc] ELSE h

doHandshake_rawResult(want, hs, outs) ==
    IF hs
    THEN rawResult(handshakeStep(want, outs, handshakeLoop(outs, 1)))
    ELSE Driven(want, FALSE, 1, FALSE, 0, outs[1], FALSE, 0)

\* doHandshake that never clears _doHandshake.
doHandshake_neverDone(want, hs, outs) ==
    IF hs
    THEN [handshakeStep(want, outs, handshakeLoop(outs, 1))
            EXCEPT !.hs = TRUE]
    ELSE Driven(want, FALSE, 1, FALSE, 0, outs[1], FALSE, 0)

\* int doHandshake()
doHandshake(want, hs, outs) ==
    IF hs
    THEN handshakeStep(want, outs, handshakeLoop(outs, 1))
    ELSE \* Handshake complete.
         Driven(want, FALSE, 1, FALSE, 0, outs[1], FALSE, 0)

----------------------------------------------------------------------------
(* The public operations of SslStreamSocket, as operators on its fields *)

\* virtual int readData(char* buf, int len), the hook StreamSocket's read
\* path calls; o is what SSL_read reports.
readData(want, len, o) == handleSslState(want, o)

\* writeData without assert (len > 0).
writeData_noAssert(want, len, o) == handleSslState(want, o)

\* virtual int writeData(const char* buf, const int len), the hook
\* StreamSocket's write path calls; o is what SSL_write reports.
writeData(want, len, o) ==
    IF len > 0
    THEN handleSslState(want, o)
    ELSE \* assert (len > 0); // Never write 0 bytes.
         AssertFailed(want)

\* StreamSocket::getPollEvents: only poll for read if there is nothing to
\* write.
StreamSocket_getPollEvents(out) ==
    IF out = 0 THEN POLLIN ELSE POLLIN + POLLOUT

\* getPollEvents consulting the base class first whenever it has data to
\* send.
getPollEvents_baseFirst(want, base) ==
    IF base # POLLIN THEN base
    ELSE IF want = "Read" THEN POLLIN
    ELSE IF want = "Write" THEN POLLOUT
    ELSE base

\* int getPollEvents(); base is what StreamSocket::getPollEvents() returns.
getPollEvents(want, base) ==
    IF want = "Read"
    THEN \* Must read next before attempting to write.
         POLLIN
    ELSE IF want = "Write"
    THEN \* Must write next before attempting to read.
         POLLOUT
    ELSE \* Do the default.
         base

\* The SSL_shutdown results consumed by a shutdown() that repeats the call
\* for as long as it reports 0.
RECURSIVE shutdownWhileZero(_, _)
shutdownWhileZero(results, i) ==
    IF results[i] = 0 /\ i < Len(results)
    THEN <<results[i]>> \o shutdownWhileZero(results, i + 1)
    ELSE <<results[i]>>

shutdown_loop(results) == shutdownWhileZero(results, 1)

\* void shutdown(): the SSL_shutdown results it consumes, in order; results
\* lists what the successive SSL_shutdown calls would report.
shutdown(results) ==
    IF results[1] = 0
    THEN \* Complete the bidirectional shutdown.
         <<results[1], results[2]>>
    ELSE <<results[1]>>

\* One engine call on _ssl as the destructor's log keeps it.
SslCall(fn, ret) == [call |-> fn, ret |-> ret]

\* The SSL_shutdown calls behind a log of their results.
ShutdownCalls(log) ==
    [i \in 1..Len(log) |-> SslCall("SSL_shutdown", log[i])]

\* The destructor releasing the handle before it shuts down.
destructor_freeFirst(results) ==
    <<SslCall("SSL_free", 0)>> \o ShutdownCalls(shutdown(results))

\* ~SslStreamSocket(): shutdown(); SSL_free(_ssl); as the engine calls made
\* on _ssl, in order.
destructor(results) ==
    ShutdownCalls(shutdown(results)) \o <<SslCall("SSL_free", 0)>>

\* The threads that can call into the socket: the one that owns it (the
\* poll thread) and any other.
Threads == {"owner", "other"}

\* Socket::isCorrectThread for a call made by thread t.
isCorrectThread(t) == t = "owner"

----------------------------------------------------------------------------
(* Inputs *)

\* What SSL_do_handshake can report: 1 on success, else a failure.
HandshakeOutcomes == EngineOutcomes(1)

HandshakeComplete == [rc |-> 1, err |-> "SSL_ERROR_NONE", errno |-> 0,
                      bio |-> 0]

InterruptedStep == [rc |-> -1, err |-> "SSL_ERROR_SYSCALL", errno |-> EINTR,
                    bio |-> 0]

RECURSIVE Interruptions(_)
Interruptions(n) ==
    IF n = 0 THEN <<>> ELSE <<InterruptedStep>> \o Interruptions(n - 1)

\* What the successive SSL_do_handshake calls of one driver call report: up
\* to MaxEintr steps cut short by a signal, then one that is not.
\* Once the handshake is complete SSL_do_handshake has nothing left to do and
\* reports success.
PendingScripts ==
    {Interruptions(n) \o <<o>> :
        n \in 0..MaxEintr, o \in {x \in HandshakeOutcomes : ~Interrupted(x)}}

HandshakeScripts(hs) == IF hs THEN PendingScripts ELSE {<<HandshakeComplete>>}

ShutdownScripts == [1..MaxShutdownRounds -> {-1, 0, 1}]

NoCall == [fn |-> "none", n |-> 0, out |-> InterruptedStep, cls |-> FALSE,
           ret |-> 0, threw |-> FALSE, what |-> "", drv |-> 1]

\* The record kept of an engine I/O call: the function, how many times in a
\* row it was invoked, what the last invocation reported, whether
\* handleSslState classified that, the value handed back to the caller,
\* whether it threw and with which message, and for SSL_do_handshake the
\* value doHandshake returned (1 otherwise).
EngineCall(fn, n, o, cls, ret, threw, what, drv) ==
    [fn |-> fn, n |-> n, out |-> o, cls |-> cls, ret |-> ret,
     threw |-> threw, what |-> what, drv |-> drv]

NeedsInput(o) == o.rc <= 0 /\ o.err = "SSL_ERROR_WANT_READ"
NeedsOutput(o) == o.rc <= 0 /\ o.err = "SSL_ERROR_WANT_WRITE"

----------------------------------------------------------------------------
(* The scenario monitor *)

\* After the handshake driver ran inside entry point name.
ScenarioAfterDriver(name, h) ==
    IF h.steps = 0 THEN "off"
    ELSE IF scenario = "init"
    THEN IF ~h.threw /\ h.rc > 0 /\ h.hs /\ NeedsInput(h.out) THEN "needInput"
         ELSE IF ~h.threw /\ h.rc > 0 /\ h.hs /\ NeedsOutput(h.out)
         THEN "needOutput"
         ELSE "off"
    ELSE IF scenario = "needInput" /\ name = "readIncomingData" /\ ~h.hs
    THEN "doneAfterNeedInput"
    ELSE IF scenario = "needOutput" /\ name = "writeOutgoingData" /\ ~h.hs
            /\ _outBuffer = 0
    THEN "doneAfterNeedOutput"
    ELSE "off"

\* After a step of the base class's read or write path: want is
\* _sslWantsTo after it, asks tells whether the engine call of the step
\* asked for input or output, res is what the entry point returns
\* ("pending" while it goes on).  The first call must leave the socket open
\* and waiting in the direction the handshake step asked for; the call that
\* completes the handshake must end with no engine call asking for anything.
ScenarioAfterBase(want, asks, res) ==
    IF res \in {"false", "throw"} THEN "off"
    ELSE IF scenario = "needInput"
    THEN IF want = "Read" THEN "needInput" ELSE "off"
    ELSE IF scenario = "needOutput"
    THEN IF want = "Write" THEN "needOutput" ELSE "off"
    ELSE IF asks THEN "off"
    ELSE scenario

----------------------------------------------------------------------------
(* The state machine *)

Init ==
    /\ _sslWantsTo = "Neither"
    /\ _doHandshake = TRUE
    /\ _outBuffer = 0
    /\ pc = "idle"
    /\ op = "ctor"
    /\ result = "void"
    /\ last = NoCall
    /\ shutdownLog = <<>>
    /\ events = 0
    /\ scenario = "init"
    /\ _ssl = "live"
    /\ dtorLog = <<>>
    /\ caller = "owner"
    /\ argLen = 0

\* assert(...) failing in operation name entered by thread t: abort() ends
\* the process with the fields as they were.
Abort(name, t, len) ==
    /\ pc' = "aborted"
    /\ op' = name
    /\ caller' = t
    /\ argLen' = len
    /\ result' = "abort"
    /\ last' = NoCall
    /\ shutdownLog' = <<>>
    /\ events' = 0
    /\ scenario' = "off"
    /\ UNCHANGED <<_sslWantsTo, _doHandshake, _outBuffer, _ssl, dtorLog>>

\* bool readIncomingData() override, up to the call of the base class;
\* scripts is what the engine may report to the SSL_do_handshake calls.
readIncomingDataWith(scripts) ==
    /\ pc = "idle"
    /\ \E t \in Threads :
       IF ~isCorrectThread(t)
       THEN \* assert(isCorrectThread());
            Abort("readIncomingData", t, 0)
       ELSE
           /\ \E outs \in scripts :
               \E h \in {doHandshake(_sslWantsTo, _doHandshake, outs)} :
                   /\ _sslWantsTo' = h.want
                   /\ _doHandshake' = h.hs
                   /\ last' = IF h.steps = 0 THEN NoCall
                              ELSE EngineCall("SSL_do_handshake", h.steps, h.out,
                                              h.cls, h.crc, h.threw, h.what,
                                              h.rc)
                   /\ scenario' = ScenarioAfterDriver("readIncomingData", h)
                   /\ IF h.threw
                      THEN pc' = "idle" /\ result' = "throw"
                      ELSE IF h.rc <= 0
                      THEN \* return (rc != 0);
                           pc' = "idle"
                           /\ result' = (IF h.rc # 0 THEN "true" ELSE "false")
                      ELSE \* return StreamSocket::readIncomingData();
                           pc' = "StreamSocket_readIncomingData"
                           /\ result' = "pending"
           /\ op' = "readIncomingData"
           /\ shutdownLog' = <<>>
           /\ events' = 0
           /\ caller' = t
           /\ argLen' = 0
           /\ UNCHANGED <<_outBuffer, _ssl, dtorLog>>

\* bool readIncomingData() override, for whatever the engine may report.
readIncomingData == readIncomingDataWith(HandshakeScripts(_doHandshake))

\* void writeOutgoingData() override, up to the call of the base class;
\* scripts is what the engine may report to the SSL_do_handshake calls.
writeOutgoingDataWith(scripts) ==
    /\ pc = "idle"
    /\ \E t \in Threads :
       IF ~isCorrectThread(t)
       THEN \* assert(isCorrectThread());
            Abort("writeOutgoingData", t, 0)
       ELSE
           /\ \E outs \in scripts :
               \E h \in {doHandshake(_sslWantsTo, _doHandshake, outs)} :
                   /\ _sslWantsTo' = h.want
                   /\ _doHandshake' = h.hs
                   /\ last' = IF h.steps = 0 THEN NoCall
                              ELSE EngineCall("SSL_do_handshake", h.steps, h.out,
                                              h.cls, h.crc, h.threw, h.what,
                                              h.rc)
                   /\ scenario' = ScenarioAfterDriver("writeOutgoingData", h)
                   /\ IF h.threw
                      THEN pc' = "idle" /\ result' = "throw"
                      ELSE IF h.rc <= 0
                      THEN pc' = "idle" /\ result' = "void"
                      ELSE \* StreamSocket::writeOutgoingData();
                           pc' = "StreamSocket_writeOutgoingData"
                           /\ result' = "pending"
           /\ op' = "writeOutgoingData"
           /\ shutdownLog' = <<>>
           /\ events' = 0
           /\ caller' = t
           /\ argLen' = 0
           /\ UNCHANGED <<_outBuffer, _ssl, dtorLog>>

\* void writeOutgoingData() override, for whatever the engine may report.
writeOutgoingData == writeOutgoingDataWith(HandshakeScripts(_doHandshake))

\* StreamSocket::readIncomingData: one readData into the read buffer.  The
\* call is repeated when it was cut short by a signal and when it filled
\* the buffer; otherwise the entry point returns len != 0.
StreamSocket_readIncomingDataWith(outcomes) ==
    /\ pc = "StreamSocket_readIncomingData"
    /\ \E o \in outcomes :
        \E r \in {readData(_sslWantsTo, BufSize, o)} :
        \E res \in {IF r.threw THEN "throw"
                    ELSE IF (r.rc < 0 /\ o.errno = EINTR) \/ r.rc = BufSize
                    THEN "pending"
                    ELSE IF r.rc # 0 THEN "true" ELSE "false"} :
            /\ _sslWantsTo' = r.want
            /\ last' = EngineCall("SSL_read", 1, o, TRUE, r.rc, r.threw,
                                  r.what, 1)
            /\ scenario' = ScenarioAfterBase(r.want,
                                NeedsInput(o) \/ NeedsOutput(o), res)
            /\ result' = res
            /\ pc' = IF res = "pending" THEN pc ELSE "idle"
    /\ UNCHANGED <<_doHandshake, _outBuffer, op, shutdownLog, events, _ssl,
                   dtorLog, caller, argLen>>

StreamSocket_readIncomingData ==
    StreamSocket_readIncomingDataWith(EngineOutcomes(BufSize))

\* StreamSocket::writeOutgoingData: with nothing buffered there is nothing
\* to send; otherwise one writeData of the buffered bytes.  The call is
\* repeated when it was cut short by a signal and while bytes remain after
\* a write that made progress.
StreamSocket_writeOutgoingDataWith(outcomes) ==
    /\ pc = "StreamSocket_writeOutgoingData"
    /\ IF _outBuffer = 0
       THEN /\ pc' = "idle"
            /\ result' = "void"
            /\ scenario' = ScenarioAfterBase(_sslWantsTo, FALSE, "void")
            /\ UNCHANGED <<_sslWantsTo, _outBuffer, last>>
       ELSE \E o \in outcomes :
            \E r \in {writeData(_sslWantsTo, _outBuffer, o)} :
            \E res \in {IF r.threw THEN "throw"
                        ELSE IF (r.rc < 0 /\ o.errno = EINTR)
                                \/ (r.rc > 0 /\ r.rc < _outBuffer)
                        THEN "pending"
                        ELSE "void"} :
                /\ _sslWantsTo' = r.want
                /\ last' = EngineCall("SSL_write", 1, o, TRUE, r.rc,
                                      r.threw, r.what, 1)
                /\ scenario' = ScenarioAfterBase(r.want,
                                    NeedsInput(o) \/ NeedsOutput(o), res)
                /\ _outBuffer' = IF ~r.threw /\ r.rc > 0
                                 THEN _outBuffer - r.rc ELSE _outBuffer
                /\ result' = res
                /\ pc' = IF res = "pending" THEN pc ELSE "idle"
    /\ UNCHANGED <<_doHandshake, op, shutdownLog, events, _ssl, dtorLog,
                   caller, argLen>>

StreamSocket_writeOutgoingData ==
    StreamSocket_writeOutgoingDataWith(EngineOutcomes(_outBuffer))

\* int getPollEvents() override
GetPollEvents ==
    /\ pc = "idle"
    /\ events' = getPollEvents(_sslWantsTo,
                               StreamSocket_getPollEvents(_outBuffer))
    /\ op' = "getPollEvents"
    /\ result' = "int"
    /\ last' = NoCall
    /\ shutdownLog' = <<>>
    /\ \E t \in Threads : caller' = t
    /\ argLen' = 0
    /\ UNCHANGED <<_sslWantsTo, _doHandshake, _outBuffer, pc, scenario, _ssl,
                   dtorLog>>

\* void shutdown() override
Shutdown ==
    /\ pc = "idle"
    /\ \E results \in ShutdownScripts :
        shutdownLog' = shutdown(results)
    /\ op' = "shutdown"
    /\ result' = "void"
    /\ last' = NoCall
    /\ events' = 0
    /\ scenario' = "off"
    /\ \E t \in Threads : caller' = t
    /\ argLen' = 0
    /\ UNCHANGED <<_sslWantsTo, _doHandshake, _outBuffer, pc, _ssl, dtorLog>>

\* int readData(char* buf, int len) override, called on its own with a
\* buffer of the caller's.
ReadData ==
    /\ pc = "idle"
    /\ \E t \in Threads, len \in 1..BufSize :
       IF ~isCorrectThread(t)
       THEN \* assert(isCorrectThread());
            Abort("readData", t, len)
       ELSE \E o \in EngineOutcomes(len) :
            \E r \in {readData(_sslWantsTo, len, o)} :
               /\ _sslWantsTo' = r.want
               /\ last' = EngineCall("SSL_read", 1, o, TRUE, r.rc, r.threw,
                                     r.what, 1)
               /\ result' = (IF r.threw THEN "throw" ELSE "int")
               /\ op' = "readData"
               /\ caller' = t
               /\ argLen' = len
               /\ shutdownLog' = <<>>
               /\ events' = 0
               /\ scenario' = "off"
               /\ UNCHANGED <<_doHandshake, _outBuffer, pc, _ssl, dtorLog>>

\* int writeData(const char* buf, const int len) override, called on its
\* own with a buffer of the caller's.
WriteData ==
    /\ pc = "idle"
    /\ \E t \in Threads, len \in 0..BufSize :
       IF ~isCorrectThread(t)
       THEN \* assert(isCorrectThread());
            Abort("writeData", t, len)
       ELSE \E o \in EngineOutcomes(len) :
            \E r \in {writeData(_sslWantsTo, len, o)} :
               IF r.aborted
               THEN Abort("writeData", t, len)
               ELSE /\ _sslWantsTo' = r.want
                    /\ last' = EngineCall("SSL_write", 1, o, TRUE, r.rc,
                                          r.threw, r.what, 1)
                    /\ result' = (IF r.threw THEN "throw" ELSE "int")
                    /\ op' = "writeData"
                    /\ caller' = t
                    /\ argLen' = len
                    /\ shutdownLog' = <<>>
                    /\ events' = 0
                    /\ scenario' = "off"
                    /\ UNCHANGED <<_doHandshake, _outBuffer, pc, _ssl,
                                   dtorLog>>

\* ~SslStreamSocket(), with no call in progress.
Destructor ==
    /\ pc = "idle"
    /\ \E results \in ShutdownScripts :
        /\ dtorLog' = destructor(results)
        /\ shutdownLog' = shutdown(results)
    /\ _ssl' = "freed"
    /\ pc' = "destroyed"
    /\ op' = "dtor"
    /\ result' = "void"
    /\ last' = NoCall
    /\ events' = 0
    /\ scenario' = "off"
    /\ caller' = "owner"
    /\ argLen' = 0
    /\ UNCHANGED <<_sslWantsTo, _doHandshake, _outBuffer>>

\* StreamSocket::send: the application buffers n more bytes for sending.
StreamSocket_send ==
    /\ pc = "idle"
    /\ \E n \in 1..MaxOut :
        /\ _outBuffer + n <= MaxOut
        /\ _outBuffer' = _outBuffer + n
    /\ op' = "send"
    /\ result' = "void"
    /\ events' = 0
    /\ caller' = "owner"
    /\ argLen' = 0
    /\ UNCHANGED <<_sslWantsTo, _doHandshake, pc, last, shutdownLog,
                   scenario, _ssl, dtorLog>>

Next ==
    \/ readIncomingData
    \/ writeOutgoingData
    \/ StreamSocket_readIncomingData
    \/ StreamSocket_writeOutgoingData
    \/ GetPollEvents
    \/ Shutdown
    \/ Destructor
    \/ StreamSocket_send

Spec == Init /\ [][Next]_vars

----------------------------------------------------------------------------
(* The socket driven by its poll thread alone: the reactor asks
   getPollEvents what to wait for and, when the socket is ready for it,
   calls readIncomingData (POLLIN) or writeOutgoingData (POLLOUT). *)

\* Whether the poll mask ev asks for the event bit.
HasEvent(ev, bit) == (ev \div bit) % 2 = 1

Interest ==
    getPollEvents(_sslWantsTo, StreamSocket_getPollEvents(_outBuffer))

\* An engine that reports nothing fatal: a call transfers up to max bytes
\* or asks for input or output (rc = -1, no system error, empty queue).
HealthyOutcomes(max) ==
    {o \in EngineOutcomes(max) :
        \/ o.rc > 0
        \/ /\ NeedsInput(o) \/ NeedsOutput(o)
           /\ o.rc = 0 - 1
           /\ o.errno = 0
           /\ o.bio = 0}

\* The handshake steps of such an engine, with the interruptions before.
HealthyScripts(hs) ==
    IF hs
    THEN {Interruptions(n) \o <<o>> :
            n \in 0..MaxEintr, o \in HealthyOutcomes(1)}
    ELSE {<<HandshakeComplete>>}

HandleRead ==
    /\ HasEvent(Interest, POLLIN)
    /\ readIncomingDataWith(HealthyScripts(_doHandshake))
    /\ caller' = "owner"

HandleWrite ==
    /\ HasEvent(Interest, POLLOUT)
    /\ writeOutgoingDataWith(HealthyScripts(_doHandshake))
    /\ caller' = "owner"

ReadPath == StreamSocket_readIncomingDataWith(HealthyOutcomes(BufSize))

WritePath == StreamSocket_writeOutgoingDataWith(HealthyOutcomes(_outBuffer))

Dispatch == HandleRead \/ HandleWrite

NextReactor ==
    \/ HandleRead
    \/ HandleWrite
    \/ ReadPath
    \/ WritePath
    \/ StreamSocket_send

\* The reactor goes on dispatching for as long as the socket asks for an
\* event; a call into the base class's path returns (its loop does not
\* repeat for ever); and SSL_do_handshake, stepped again and again, at some
\* point reports success.
SpecReactor ==
    /\ Init
    /\ [][NextReactor]_vars
    /\ WF_vars(Dispatch)
    /\ SF_vars(ReadPath /\ pc' = "idle")
    /\ SF_vars(WritePath /\ pc' = "idle")
    /\ SF_vars(Dispatch /\ ~_doHandshake')

----------------------------------------------------------------------------
(* readData and writeData called on their own.  Every combination of
   _sslWantsTo and _doHandshake below is one Spec reaches with no call in
   progress and nothing buffered. *)

InitDirect ==
    /\ _sslWantsTo \in {"Neither", "Read", "Write"}
    /\ _doHandshake \in BOOLEAN
    /\ _outBuffer = 0
    /\ pc = "idle"
    /\ op = "none"
    /\ result = "void"
    /\ last = NoCall
    /\ shutdownLog = <<>>
    /\ events = 0
    /\ scenario = "off"
    /\ _ssl = "live"
    /\ dtorLog = <<>>
    /\ caller = "owner"
    /\ argLen = 0

NextDirect ==
    \/ ReadData
    \/ WriteData

SpecDirect == InitDirect /\ [][NextDirect]_vars

----------------------------------------------------------------------------
(* Properties *)

Suspended(o) == o.rc < 0 /\ (NeedsInput(o) \/ NeedsOutput(o))

\* C1: while the handshake is pending, a readIncomingData call whose
\* handshake step does not complete the handshake returns without entering
\* the read path of the base class, and returns true ("retry later") when
\* the step asked for input or output.
C1_PendingReadReturnsRetryLater ==
    (op = "readIncomingData" /\ _doHandshake /\ last.fn = "SSL_do_handshake")
        => /\ pc = "idle"
           /\ Suspended(last.out) => result = "true"

\* C2: right after any handshake driver step, _sslWantsTo is Read exactly
\* when that step asked for input, Write exactly when it asked for output,
\* and Neither when it succeeded.
C2_WantStateTracksLastStep ==
    last.fn = "SSL_do_handshake"
        => /\ _sslWantsTo = "Read" <=> NeedsInput(last.out)
           /\ _sslWantsTo = "Write" <=> NeedsOutput(last.out)
           /\ last.out.rc > 0 => _sslWantsTo = "Neither"

\* C3: when the first handshake step asked for input (output) and the next
\* call, readIncomingData (writeOutgoingData with nothing buffered),
\* completed the handshake and returned with the socket open and no engine
\* call of its own asking for input or output, getPollEvents returns what
\* StreamSocket::getPollEvents returns.
C3_DefaultInterestOnceDone ==
    (scenario \in {"doneAfterNeedInput", "doneAfterNeedOutput"}
     /\ op = "getPollEvents")
        => events = StreamSocket_getPollEvents(_outBuffer)

\* C4: getPollEvents returns exactly POLLIN when _sslWantsTo is Read, exactly
\* POLLOUT when it is Write and the base class's answer when it is Neither,
\* and it changes neither _sslWantsTo nor _doHandshake.
C4_PollInterest ==
    /\ [](op = "getPollEvents"
            => /\ _sslWantsTo = "Read" => events = POLLIN
               /\ _sslWantsTo = "Write" => events = POLLOUT
               /\ _sslWantsTo = "Neither"
                    => events = StreamSocket_getPollEvents(_outBuffer))
    /\ [][op' = "getPollEvents"
            => UNCHANGED <<_sslWantsTo, _doHandshake>>]_vars

C4_Witness ==
    op = "getPollEvents" /\ _sslWantsTo = "Read" /\ _outBuffer > 0
    /\ events = POLLIN

\* C5: once _doHandshake is false it stays false.
C5_HandshakeMonotonic == [][~_doHandshake => ~_doHandshake']_vars

C5_Witness == ~_doHandshake /\ last.fn = "SSL_read" /\ last.threw

\* C6: _doHandshake turns false only in a handshake driver call whose
\* SSL_do_handshake returned a positive result; a driver call whose step
\* returned a non-positive result or threw leaves it true.
C6_DoneOnlyOnSuccess ==
    [][/\ (_doHandshake /\ ~_doHandshake')
            => (last'.fn = "SSL_do_handshake" /\ last'.out.rc > 0
                /\ ~last'.threw)
       /\ (_doHandshake /\ pc = "idle" /\ last'.fn = "SSL_do_handshake"
           /\ last'.out.rc <= 0)
            => _doHandshake']_vars

C6_Witness ==
    ~_doHandshake /\ last.fn = "SSL_do_handshake" /\ last.out.rc > 0
    /\ last.n > 1

\* C7: once _doHandshake is false, readIncomingData and writeOutgoingData
\* (called by the owning thread) invoke SSL_do_handshake no more and go
\* straight to the base class's path.
C7_NoDriverStepOnceDone ==
    [][(~_doHandshake /\ pc = "idle" /\ caller' = "owner")
        => /\ op' = "readIncomingData"
                => (last' = NoCall /\ pc' = "StreamSocket_readIncomingData")
           /\ op' = "writeOutgoingData"
                => (last' = NoCall /\ pc' = "StreamSocket_writeOutgoingData")
      ]_vars

C7_Witness ==
    ~_doHandshake /\ op = "writeOutgoingData" /\ last = NoCall
    /\ pc = "StreamSocket_writeOutgoingData"

\* C8: when the handshake step at the start of writeOutgoingData asks for
\* input or output, _sslWantsTo records it and the call returns without
\* entering the write path of the base class.
C8_SuspendedWriteReturns ==
    (op = "writeOutgoingData" /\ _doHandshake /\ last.fn = "SSL_do_handshake"
     /\ Suspended(last.out))
        => /\ pc = "idle"
           /\ _sslWantsTo = (IF NeedsInput(last.out) THEN "Read" ELSE "Write")

\* C9: one shutdown() issues one SSL_shutdown, and a second one exactly when
\* the first returned 0; never a third.
C9_ShutdownAtMostTwice ==
    op = "shutdown"
        => /\ Len(shutdownLog) \in {1, 2}
           /\ Len(shutdownLog) = 2 <=> shutdownLog[1] = 0

C9_Witness == op = "shutdown" /\ shutdownLog = <<0, 0>>

\* C10: handleSslState, given a non-positive result that SSL_get_error
\* classifies as SSL_ERROR_SYSCALL while errno is set, returns the result
\* unchanged and does not throw.
C10_TransportErrorPassedThrough ==
    (last.cls /\ last.out.rc <= 0 /\ last.out.err = "SSL_ERROR_SYSCALL"
     /\ last.out.errno # 0)
        => (~last.threw /\ last.ret = last.out.rc)

C10_Witness ==
    /\ last.fn = "SSL_do_handshake" /\ last.cls
    /\ last.out.rc < 0 /\ last.out.err = "SSL_ERROR_SYSCALL"
    /\ last.out.errno # 0 /\ last.out.bio # 0
    /\ pc = "StreamSocket_readIncomingData"


\* The results handleSslState settles by the error queue, with no system
\* error recorded: SSL_ERROR_SYSCALL with errno = 0, and SSL_ERROR_SSL.
QueueDecides(o) ==
    /\ o.rc <= 0
    /\ o.err \in {"SSL_ERROR_SYSCALL", "SSL_ERROR_SSL"}
    /\ o.errno = 0

\* C11 as stated: for a result settled by the error queue, an empty queue
\* with raw result 0 returns 0 without an exception, an empty queue with a
\* negative raw result throws the unexpected-disconnect fault, and a
\* non-empty queue throws the formatted diagnostic.
C11_QueueDecidesAsStated ==
    (last.cls /\ QueueDecides(last.out)) =>
        /\ (last.out.bio = 0 /\ last.out.rc = 0) =>
               (~last.threw /\ last.ret = 0)
        /\ (last.out.bio = 0 /\ last.out.rc < 0) =>
               (last.threw /\ last.what = ClosedUnexpectedly)
        /\ last.out.bio # 0 =>
               (last.threw /\ last.what = QueuedDiagnostic)

\* C11, amended: as above, except that with an empty queue only the raw
\* result -1 throws the unexpected-disconnect fault; any other negative raw
\* result throws the fault that reports the raw result.  Both are
\* exceptions, never a return of 0.
C11_QueueDecides ==
    (last.cls /\ QueueDecides(last.out)) =>
        /\ (last.out.bio = 0 /\ last.out.rc = 0) =>
               (~last.threw /\ last.ret = 0)
        /\ (last.out.bio = 0 /\ last.out.rc = -1) =>
               (last.threw /\ last.what = ClosedUnexpectedly)
        /\ (last.out.bio = 0 /\ last.out.rc < -1) =>
               (last.threw /\ last.what = BioReportedError)
        /\ last.out.bio # 0 =>
               (last.threw /\ last.what = QueuedDiagnostic)

C11_Witness ==
    /\ last.cls
    /\ QueueDecides(last.out)
    /\ last.out.bio = 0
    /\ last.out.rc < -1
    /\ last.threw
    /\ result = "throw"

\* C12: when SSL_get_error answers SSL_ERROR_ZERO_RETURN for a failed SSL_read
\* or SSL_do_handshake, handleSslState returns 0 and throws nothing, whatever
\* the raw result, errno and the error queue hold, and readIncomingData then
\* reports the socket closed (false).
C12_CleanTerminationIsClose ==
    (last.cls /\ last.out.err = "SSL_ERROR_ZERO_RETURN"
        /\ last.fn \in {"SSL_read", "SSL_do_handshake"}) =>
        /\ ~last.threw
        /\ last.ret = 0
        /\ op = "readIncomingData" => (pc = "idle" /\ result = "false")

C12_Witness ==
    /\ op = "readIncomingData"
    /\ last.fn = "SSL_read"
    /\ last.cls
    /\ last.out.err = "SSL_ERROR_ZERO_RETURN"
    /\ last.out.rc < 0
    /\ last.out.bio # 0
    /\ last.out.errno # 0
    /\ result = "false"


\* C13: writeData with len = 0 stops at assert (len > 0) whether or not the
\* handshake has completed: SSL_write is not invoked, and _sslWantsTo and
\* _doHandshake stay as they were.
C13_NeverWriteZeroBytes ==
    [][(op' = "writeData" /\ argLen' = 0)
        => /\ pc' = "aborted"
           /\ result' = "abort"
           /\ last' = NoCall
           /\ UNCHANGED <<_sslWantsTo, _doHandshake>>]_vars

C13_Witness ==
    /\ op = "writeData"
    /\ argLen = 0
    /\ caller = "owner"
    /\ result = "abort"
    /\ ~_doHandshake
    /\ _sslWantsTo = "Read"


\* C14: after an SSL_read or SSL_write (through readData or writeData) that
\* returned a positive byte count, the call has returned exactly that count
\* and _sslWantsTo is Neither, whatever it was before, so that getPollEvents
\* gives the base class's answer.
C14_SuccessResetsWant ==
    (last.fn \in {"SSL_read", "SSL_write"} /\ last.out.rc > 0) =>
        /\ ~last.threw
        /\ last.ret = last.out.rc
        /\ _sslWantsTo = "Neither"
        /\ getPollEvents(_sslWantsTo, StreamSocket_getPollEvents(_outBuffer))
             = StreamSocket_getPollEvents(_outBuffer)

\* The read that follows a handshake which asked for input and then
\* completed: _sslWantsTo was still Read when SSL_read was called.
C14_Witness ==
    /\ scenario = "doneAfterNeedInput"
    /\ last.fn = "SSL_read"
    /\ last.out.rc > 0
    /\ last.ret = last.out.rc
    /\ _sslWantsTo = "Neither"


\* C15: a handshake step cut short by a signal (rc < 0 with errno = EINTR)
\* is retried inside the same doHandshake call: the result that is
\* classified and handed back is that of the first step not cut short, and
\* the call ends after as many SSL_do_handshake calls as there were
\* interruptions, plus one.
C15_InterruptedStepRetried ==
    last.fn = "SSL_do_handshake" =>
        /\ ~Interrupted(last.out)
        /\ last.n >= 1
        /\ last.n <= MaxEintr + 1
        /\ pc \in {"idle", "StreamSocket_readIncomingData",
                   "StreamSocket_writeOutgoingData"}

C15_Witness ==
    /\ last.fn = "SSL_do_handshake"
    /\ last.n > 1
    /\ last.cls
    /\ last.out.err = "SSL_ERROR_SYSCALL"
    /\ last.out.errno = OtherErrno


C17_ShutdownThenFree ==
    /\ [](op = "dtor"
            => /\ result = "void"
               /\ _ssl = "freed"
               /\ Len(dtorLog) = Len(shutdownLog) + 1
               /\ Len(shutdownLog) \in {1, 2}
               /\ Len(shutdownLog) = 2 <=> shutdownLog[1] = 0
               /\ \A i \in 1..Len(shutdownLog) :
                    dtorLog[i] = SslCall("SSL_shutdown", shutdownLog[i])
               /\ dtorLog[Len(dtorLog)].call = "SSL_free"
               /\ Cardinality({i \in 1..Len(dtorLog) :
                                 dtorLog[i].call = "SSL_free"}) = 1)
    /\ [](_ssl = "freed" <=> op = "dtor")
    /\ [][_ssl = "freed"
            => /\ _ssl' = "freed"
               /\ UNCHANGED <<last, shutdownLog, dtorLog>>]_vars

C17_Witness ==
    /\ op = "dtor"
    /\ _ssl = "freed"
    /\ _doHandshake
    /\ _sslWantsTo = "Write"
    /\ Len(dtorLog) = 3
    /\ dtorLog[2] = SslCall("SSL_shutdown", 0 - 1)
    /\ dtorLog[3].call = "SSL_free"


\* C18: a call of readIncomingData, writeOutgoingData, readData, writeData,
\* getPollEvents or shutdown made by a thread other than the owner stops at
\* the owner-thread assert, before _sslWantsTo, _doHandshake or _ssl is read
\* or changed.  (doHandshake and handleSslState are private and run on the
\* thread of the entry point that called them.)
C18_OwnerThreadChecked ==
    (caller = "other"
        /\ op \in {"readIncomingData", "writeOutgoingData", "readData",
                   "writeData", "getPollEvents", "shutdown"})
        => /\ pc = "aborted"
           /\ result = "abort"
           /\ last = NoCall
           /\ shutdownLog = <<>>
           /\ events = 0


\* C19: handleSslState writes _sslWantsTo on three results only: Neither on
\* a positive one, Read on SSL_ERROR_WANT_READ, Write on
\* SSL_ERROR_WANT_WRITE.  Every other result (clean termination, the
\* connect/accept/lookup continuations, a transport error with errno set, a
\* closed socket, and those that throw) leaves it as it was, and no result
\* changes _doHandshake.
C19_WantWrittenOnThreeResults ==
    [][last'.cls
        => /\ _doHandshake' = _doHandshake
           /\ _sslWantsTo' =
                (IF last'.out.rc > 0 THEN "Neither"
                 ELSE IF last'.out.err = "SSL_ERROR_WANT_READ" THEN "Read"
                 ELSE IF last'.out.err = "SSL_ERROR_WANT_WRITE" THEN "Write"
                 ELSE _sslWantsTo)]_vars

\* An SSL_write that found the connection cleanly terminated while
\* _sslWantsTo was Read, and left it Read.
C19_Witness ==
    /\ last.fn = "SSL_write"
    /\ last.cls
    /\ last.out.err = "SSL_ERROR_ZERO_RETURN"
    /\ last.ret = 0
    /\ _sslWantsTo = "Read"


\* C20: a doHandshake that stepped the engine and did not throw returns 0 or
\* 1, never a negative value; it returns 0 exactly when handleSslState
\* returned 0, and then readIncomingData returns false and
\* writeOutgoingData returns, neither entering the base class's path, with
\* _doHandshake still true.
C20_DriverReturnsZeroOrOne ==
    (last.fn = "SSL_do_handshake" /\ ~last.threw) =>
        /\ last.drv \in {0, 1}
        /\ last.drv = 0 <=> (last.cls /\ last.ret = 0)
        /\ last.drv = 0 =>
            /\ pc = "idle"
            /\ _doHandshake
            /\ op = "readIncomingData" => result = "false"
            /\ op = "writeOutgoingData" => result = "void"

C20_Witness ==
    /\ last.fn = "SSL_do_handshake"
    /\ last.drv = 0
    /\ last.out.err = "SSL_ERROR_SYSCALL"
    /\ op = "writeOutgoingData"
    /\ result = "void"
    /\ pc = "idle"
    /\ _doHandshake

====
